---- MODULE Spec2Model ----
(***************************************************************************)
(* Model of the did:cheqd resolution engine (src/src/resolution/resolver.rs) *)
(* DidCheqdResolver: the connection cache behind its mutex, the dispatch   *)
(* of document and resource queries, and the version selection of the      *)
(* name/type/time resource lookup.                                         *)
(*                                                                         *)
(* with the identifier parser (src/src/resolution/parser.rs) and the        *)
(* resolver-trait adapter (src/src/lib.rs).                                *)
(*                                                                         *)
(* The specifications:                                                     *)
(*   Spec        NumTasks concurrent callers of one resolver               *)
(*   SpecSeq     one caller, the full range of requests and responses      *)
(*   SpecSelect  the version selection applied to arbitrary listings       *)
(*   SpecParse   DidCheqdParser::parse applied to composed inputs          *)
(*   SpecAdapter resolve_method_representation on method-specific ids      *)
(***************************************************************************)
EXTENDS Integers, Sequences, FiniteSets, TLC

VARIABLES networks, network_clients, lock, tasks, connects, sel, par, adp

vars == <<networks, network_clients, lock, tasks, connects, sel, par, adp>>

\* ------------------------------------------------------------------ bounds
\* number of concurrent callers of one resolver in Spec
NumTasks == 2
\* longest resource listing drawn in SpecSelect
MaxLen == 3

\* ------------------------------------------------------- Option<T> values
None == <<>>
Some(x) == <<x>>
IsSome(o) == o # <<>>
Unwrap(o) == o[1]

\* --------------------------------------------------------- configuration
MAINNET_NAMESPACE == "mainnet"
MAINNET_DEFAULT_GRPC == "https://grpc.cheqd.net:443"
TESTNET_NAMESPACE == "testnet"
TESTNET_DEFAULT_GRPC == "https://grpc.cheqd.network:443"

NetworkConfiguration_mainnet ==
    [grpc_url |-> MAINNET_DEFAULT_GRPC, namespace |-> MAINNET_NAMESPACE]
NetworkConfiguration_testnet ==
    [grpc_url |-> TESTNET_DEFAULT_GRPC, namespace |-> TESTNET_NAMESPACE]

\* DidCheqdResolverConfiguration::default()
DefaultConfiguration == <<NetworkConfiguration_mainnet, NetworkConfiguration_testnet>>

\* the configuration of test_resolve_fails_if_bad_network_uri, next to mainnet
DEVNET_NAMESPACE == "devnet"
BadUriConfiguration ==
    <<NetworkConfiguration_mainnet,
      [grpc_url |-> "@baduri://.", namespace |-> DEVNET_NAMESPACE]>>

Configurations == {DefaultConfiguration, BadUriConfiguration}

Namespaces == {MAINNET_NAMESPACE, TESTNET_NAMESPACE, DEVNET_NAMESPACE}

\* ------------------------------------------------------------ timestamps
\* a protobuf Timestamp / a chrono DateTime<Utc>: seconds and nanoseconds
NANOS_PER_SECOND == 1000 * 1000 * 1000
HalfSecond == NANOS_PER_SECOND \div 2

Ts(s, n) == [seconds |-> s, nanos |-> n]

\* prost_types::Timestamp::normalized: nanos brought into 0 .. 10^9 - 1
normalized(v) ==
    [seconds |-> v.seconds + (v.nanos \div NANOS_PER_SECOND),
     nanos |-> v.nanos % NANOS_PER_SECOND]

\* DateTime::timestamp: whole seconds since the epoch
timestamp(t) == t.seconds

\* ----------------------------------------------------- version selection
\* filter_resources_by_name_and_type
filter_resources_by_name_and_type(resources, name, rtyp) ==
    SelectSeq(resources, LAMBDA r : r.name = name /\ r.resource_type = rtyp)

\* the (seconds, nanos) key of an entry, (0, 0) without a created timestamp
CreatedKey(r) ==
    IF IsSome(r.created)
    THEN LET v == normalized(Unwrap(r.created)) IN <<v.seconds, v.nanos>>
    ELSE <<0, 0>>

\* i64::cmp / i32::cmp
cmp(x, y) == IF x < y THEN "Less" ELSE IF x = y THEN "Equal" ELSE "Greater"

\* desc_chronological_sort_resources(b, a): a's key compared with b's
desc_chronological_sort_resources(b, a) ==
    LET ka == CreatedKey(a)
        kb == CreatedKey(b)
    IN  IF cmp(ka[1], kb[1]) = "Equal" THEN cmp(ka[2], kb[2]) ELSE cmp(ka[1], kb[1])

\* x placed into the sorted s behind every element not ordered after it
RECURSIVE InsertSorted(_, _)
InsertSorted(s, x) ==
    IF s = <<>> THEN <<x>>
    ELSE IF desc_chronological_sort_resources(Head(s), x) = "Greater"
         THEN <<x>> \o s
         ELSE <<Head(s)>> \o InsertSorted(Tail(s), x)

\* Vec::sort_by(|a, b| desc_chronological_sort_resources(a, b)), a stable sort
RECURSIVE sort_by(_)
sort_by(s) ==
    IF s = <<>> THEN <<>>
    ELSE InsertSorted(sort_by(SubSeq(s, 1, Len(s) - 1)), s[Len(s)])

\* find_resource_just_before_time with `<=` for `<`
RECURSIVE find_resource_at_or_before_time(_, _)
find_resource_at_or_before_time(resources, before_time) ==
    IF resources = <<>> THEN None
    ELSE LET r == Head(resources) IN
         IF IsSome(r.created)
            /\ normalized(Unwrap(r.created)).seconds <= timestamp(before_time)
         THEN Some(r)
         ELSE find_resource_at_or_before_time(Tail(resources), before_time)

\* find_resource_just_before_time reading a missing created as the epoch,
\* as the sort does
RECURSIVE find_resource_epoch_default(_, _)
find_resource_epoch_default(resources, before_time) ==
    IF resources = <<>> THEN None
    ELSE LET r == Head(resources) IN
         IF CreatedKey(r)[1] < timestamp(before_time)
         THEN Some(r)
         ELSE find_resource_epoch_default(Tail(resources), before_time)

\* find_resource_just_before_time
RECURSIVE find_resource_just_before_time(_, _)
find_resource_just_before_time(resources, before_time) ==
    IF resources = <<>> THEN None
    ELSE LET r == Head(resources) IN
         IF IsSome(r.created)
            /\ normalized(Unwrap(r.created)).seconds < timestamp(before_time)
         THEN Some(r)
         ELSE find_resource_just_before_time(Tail(resources), before_time)

\* lines 332-337 of resolve_resource_by_name_type_and_time
SelectResource(resources, name, rtyp, time) ==
    find_resource_just_before_time(
        sort_by(filter_resources_by_name_and_type(resources, name, rtyp)), time)

\* ------------------------------------------------------------- requests
\* HashMap::get
Get(m, k) == IF k \in DOMAIN m THEN Some(m[k]) ELSE None

\* every map from a subset of the keys ks to the values vals[k]
MapsOver(ks, vals) ==
    UNION {{m \in [d -> UNION {vals[k] : k \in d}] : \A k \in d : m[k] \in vals[k]} :
           d \in SUBSET ks}

TimeGood == "1970-01-01T00:00:14Z"
TimeFrac == "1970-01-01T00:00:10.5Z"
TimeZoned == "1970-01-01T01:00:20+01:00"
TimeBad == "12341234"

\* DateTime::parse_from_rfc3339(v) followed by to_utc(), on the strings drawn here;
\* <<>> stands for the parse error
parse_from_rfc3339(v) ==
    CASE v = TimeGood -> Some(Ts(14, 0))
      [] v = TimeFrac -> Some(Ts(10, HalfSecond))
      [] v = TimeZoned -> Some(Ts(20, 0))
      [] OTHER -> None

QueryValues ==
    [resourceId |-> {"r3"},
     resourceName |-> {"n1"},
     resourceType |-> {"t1"},
     resourceVersionTime |-> {TimeGood, TimeFrac, TimeZoned, TimeBad}]

\* DidCheqdParsed.query: absent, or a map over the resolver's keys
Queries == {None} \cup {Some(m) : m \in MapsOver(DOMAIN QueryValues, QueryValues)}

Versions == {None, Some("v1")}

DidIds == {"c1"}

\* the canonical DID built by the parser (parser.rs line 107)
Did(namespace, id) == "did:cheqd:" \o namespace \o ":" \o id

\* DidCheqdParsed
Parsed(namespace, id, query, version) ==
    [did |-> Did(namespace, id), namespace |-> namespace, id |-> id,
     query |-> query, version |-> version]

ParsedInputs ==
    {Parsed(n, i, q, v) : n \in Namespaces, i \in DidIds, q \in Queries, v \in Versions}

\* a call: the operation, its parsed DID (URL) and the reading of Utc::now()
CallOf(op, parsed, now) == [op |-> op, parsed |-> parsed, now |-> now]

\* Utc::now()
NowValues == {Ts(10, HalfSecond), Ts(20, 0)}

\* the calls of the single caller of SpecSeq
AllCalls ==
    {CallOf(op, p, now) : op \in {"doc", "resource"}, p \in ParsedInputs, now \in NowValues}

\* the calls of concurrent callers: per namespace a document query and a
\* resource query of each selector form
ConcurrentQueries ==
    {None, Some([resourceId |-> "r3"]),
     Some([resourceName |-> "n1", resourceType |-> "t1"])}
ConcurrentCalls ==
    {CallOf("doc", Parsed(n, i, None, None), Ts(20, 0)) : n \in Namespaces, i \in DidIds}
    \cup {CallOf("resource", Parsed(n, i, q, None), Ts(20, 0)) :
             n \in Namespaces, i \in DidIds, q \in ConcurrentQueries}

\* ------------------------------------------------------------ responses
Meta(id, name, rtyp, created) ==
    [id |-> id, name |-> name, resource_type |-> rtyp, created |-> created]

\* the listing of the doc comment of find_resource_just_before_time, unsorted
ListingExample ==
    <<Meta("r1", "n1", "t1", Some(Ts(10, 0))), Meta("r2", "n1", "t1", Some(Ts(20, 0))),
      Meta("r3", "n1", "t1", Some(Ts(5, 0))), Meta("r4", "n1", "t1", Some(Ts(15, 0)))>>
ListingMixed ==
    <<Meta("r1", "n2", "t1", Some(Ts(5, 0))), Meta("r2", "n1", "t1", None),
      Meta("r3", "n1", "t2", Some(Ts(5, 0))), Meta("r4", "n1", "t1", Some(Ts(9, 3 * HalfSecond))),
      Meta("r5", "n1", "t1", Some(Ts(10, 0)))>>
ListingLate ==
    <<Meta("r1", "n1", "t1", Some(Ts(20, 0))), Meta("r2", "n1", "t1", Some(Ts(20, HalfSecond)))>>

ServedListings == {<<>>, ListingExample, ListingMixed, ListingLate}
ConcurrentListings == {<<>>, ListingExample}

Rpc(method, id, collection_id, version) ==
    [method |-> method, id |-> id, collection_id |-> collection_id, version |-> version]

\* QueryDidDocResponse / QueryDidDocVersionResponse, or a tonic Status
DocResponses ==
    {[kind |-> "doc", status |-> "err", value |-> None],
     [kind |-> "doc", status |-> "ok", value |-> None],
     [kind |-> "doc", status |-> "ok", value |-> Some([did_doc |-> None, metadata |-> None])],
     [kind |-> "doc", status |-> "ok",
      value |-> Some([did_doc |-> Some("did_doc"), metadata |-> None])],
     [kind |-> "doc", status |-> "ok",
      value |-> Some([did_doc |-> Some("did_doc"), metadata |-> Some("meta")])]}

MediaTypes == {"", " ", "application/json"}

\* QueryResourceResponse, or a tonic Status
ResourceResponses ==
    {[kind |-> "resource", status |-> "err", resource |-> None],
     [kind |-> "resource", status |-> "ok", resource |-> None],
     [kind |-> "resource", status |-> "ok",
      resource |-> Some([resource |-> None, metadata |-> Some("application/json")])],
     [kind |-> "resource", status |-> "ok",
      resource |-> Some([resource |-> Some("data"), metadata |-> None])]}
    \cup {[kind |-> "resource", status |-> "ok",
           resource |-> Some([resource |-> Some("data"), metadata |-> Some(m)])] :
          m \in MediaTypes}

\* QueryCollectionResourcesResponse, or a tonic Status
ListResponses(listings) ==
    {[kind |-> "list", status |-> "err", resources |-> <<>>]}
    \cup {[kind |-> "list", status |-> "ok", resources |-> l] : l \in listings}

\* the responses served to concurrent callers
ConcurrentResponses ==
    ListResponses(ConcurrentListings)
    \cup {[kind |-> "resource", status |-> "err", resource |-> None],
          [kind |-> "resource", status |-> "ok",
           resource |-> Some([resource |-> Some("data"),
                              metadata |-> Some("application/json")])]}
    \cup {[kind |-> "doc", status |-> "err", value |-> None],
          [kind |-> "doc", status |-> "ok",
           value |-> Some([did_doc |-> Some("did_doc"), metadata |-> Some("meta")])]}

\* the responses served to the single caller of SpecSeq
AllResponses == ListResponses(ServedListings) \cup ResourceResponses \cup DocResponses

\* str::trim(..).is_empty() on the media types drawn here
TrimIsEmpty(s) == s \in {"", " "}

\* ---------------------------------------------------------------- results
Err(kind) == [ok |-> FALSE, err |-> kind, value |-> None]
Ok(a, b) == [ok |-> TRUE, err |-> "", value |-> Some(<<a, b>>)]

\* ------------------------------------------------------------------ tasks
Tasks == 1 .. NumTasks

\* a caller between calls
Idle ==
    [pc |-> "idle", op |-> "", parsed |-> None, fn |-> "", resource_id |-> "",
     now |-> None, time |-> None, client |-> None, rpcs |-> <<>>, attempts |-> 0,
     listing |-> None, fails |-> 0, after_fail |-> 0, result |-> None]

\* the call ends with the error `kind`
Fail(tk, kind) ==
    [tk EXCEPT !.pc = "done", !.result = Some(Err(kind)), !.fails = @ + 1]

\* the call ends with Ok((a, b))
Succeed(tk, a, b) == [tk EXCEPT !.pc = "done", !.result = Some(Ok(a, b))]

\* the call reaches `self.client_for_network(network).await` inside `fn`
AwaitClient(tk, fn) ==
    [tk EXCEPT !.pc = "lock", !.fn = fn, !.after_fail = @ + (IF tk.fails > 0 THEN 1 ELSE 0)]

\* RequestOf with the resource queried in the collection named by the DID
RequestOf_did_collection(tk) ==
    LET p == Unwrap(tk.parsed) IN
    CASE tk.fn = "query_did_doc_by_str" ->
            IF IsSome(p.version)
            THEN Rpc("DidDocVersion", p.did, "", Unwrap(p.version))
            ELSE Rpc("DidDoc", p.did, "", "")
      [] tk.fn = "resolve_resource_by_id" -> Rpc("Resource", tk.resource_id, p.did, "")
      [] OTHER -> Rpc("CollectionResources", "", p.id, "")

\* RequestOf with the version of the parsed DID left out of the document query
RequestOf_unversioned(tk) ==
    LET p == Unwrap(tk.parsed) IN
    CASE tk.fn = "query_did_doc_by_str" -> Rpc("DidDoc", p.did, "", "")
      [] tk.fn = "resolve_resource_by_id" -> Rpc("Resource", tk.resource_id, p.id, "")
      [] OTHER -> Rpc("CollectionResources", "", p.id, "")

\* the request the function `tk.fn` builds once it has its client
RequestOf(tk) ==
    LET p == Unwrap(tk.parsed) IN
    CASE tk.fn = "query_did_doc_by_str" ->
            IF IsSome(p.version)
            THEN Rpc("DidDocVersion", p.did, "", Unwrap(p.version))
            ELSE Rpc("DidDoc", p.did, "", "")
      [] tk.fn = "resolve_resource_by_id" -> Rpc("Resource", tk.resource_id, p.id, "")
      [] OTHER -> Rpc("CollectionResources", "", p.id, "")

\* the function `tk.fn` got `client` and sends its request
SendRequest(tk, client) ==
    [tk EXCEPT !.pc = "await", !.client = Some(client),
               !.rpcs = Append(@, RequestOf(tk)),
               !.after_fail = @ + (IF tk.fails > 0 THEN 1 ELSE 0)]

\* --------------------------------------------------- client_for_network
\* FindNetwork without the comparison of namespaces
FindNetwork_first(nets, network) == IF nets = <<>> THEN None ELSE Some(nets[1])

\* self.networks.iter().find(|n| n.namespace == network)
FindNetwork(nets, network) ==
    LET idx == {i \in 1 .. Len(nets) : nets[i].namespace = network}
    IN  IF idx = {} THEN None
        ELSE Some(nets[CHOOSE i \in idx : \A j \in idx : i <= j])

\* Endpoint::new(url) accepts the URL
EndpointParses(url) == url # "@baduri://."

\* CacheGet that never finds the client
CacheGet_miss(clients, network) == None

\* lock.get(network)
CacheGet(clients, network) == Get(clients, network)

\* CacheInsert that keeps the newest client only
CacheInsert_only(clients, network, client) == [k \in {network} |-> client]

\* lock.insert(network.to_owned(), client.clone())
CacheInsert(clients, network, client) ==
    [k \in DOMAIN clients \cup {network} |-> IF k = network THEN client ELSE clients[k]]

\* the namespace a call resolves against
NetworkOf(tk) == Unwrap(tk.parsed).namespace

\* the MutexGuard outliving the return of client_for_network
guard_kept_at_return(t) == t

\* the holder of the mutex once client_for_network has returned, by a cache
\* hit, an error or the insert: the MutexGuard `lock` is dropped, nobody
guard_dropped_at_return(t) == 0

\* the MutexGuard released before `endpoint.connect().await`
guard_dropped_before_connect(t) == 0

\* the holder of the MutexGuard `lock` while `endpoint.connect().await` is
\* pending: the guard lives to the end of client_for_network
guard_during_connect(t) == t

\* the mutex is granted to t, which runs client_for_network up to its return
\* or up to `endpoint.connect().await`; tls is the outcome of tls_config
AcquireLock(t, tls_ok) ==
    /\ tasks[t].pc = "lock"
    /\ lock = 0
    /\ LET tk == tasks[t]
           network == NetworkOf(tk)
           cached == CacheGet(network_clients, network)
           config == FindNetwork(networks, network)
       IN  IF IsSome(cached)
           THEN /\ tls_ok
                /\ tasks' = [tasks EXCEPT
                       ![t] = SendRequest(tk, Unwrap(cached))]
                /\ lock' = guard_dropped_at_return(t)
           ELSE IF ~IsSome(config)
           THEN /\ tls_ok
                /\ tasks' = [tasks EXCEPT ![t] = Fail(tk, "NetworkNotSupported")]
                /\ lock' = guard_dropped_at_return(t)
           ELSE IF ~EndpointParses(Unwrap(config).grpc_url)
           THEN /\ tls_ok
                /\ tasks' = [tasks EXCEPT ![t] = Fail(tk, "BadConfiguration")]
                /\ lock' = guard_dropped_at_return(t)
           ELSE IF ~tls_ok
           THEN /\ tasks' = [tasks EXCEPT ![t] = Fail(tk, "TransportError")]
                /\ lock' = guard_dropped_at_return(t)
           ELSE /\ tasks' = [tasks EXCEPT
                       ![t] = [tk EXCEPT !.pc = "connecting", !.attempts = @ + 1,
                                         !.after_fail = @ + (IF tk.fails > 0 THEN 1 ELSE 0)]]
                /\ lock' = guard_during_connect(t)
    /\ UNCHANGED <<networks, network_clients, connects, sel, par, adp>>

\* ConnectReturn with the client inserted before the outcome is looked at
ConnectReturn_insert_first(t, connected) ==
    /\ tasks[t].pc = "connecting"
    /\ LET tk == tasks[t]
           network == NetworkOf(tk)
           client == [namespace |-> network, n |-> connects[network] + 1]
       IN  /\ network_clients' = CacheInsert(network_clients, network, client)
           /\ IF connected
              THEN /\ connects' = [connects EXCEPT ![network] = @ + 1]
                   /\ tasks' = [tasks EXCEPT ![t] = SendRequest(tk, client)]
              ELSE /\ tasks' = [tasks EXCEPT ![t] = Fail(tk, "TransportError")]
                   /\ UNCHANGED connects
    /\ lock' = 0
    /\ UNCHANGED <<networks, sel, par, adp>>

\* `endpoint.connect().await` returns to t, which still holds the mutex
ConnectReturn(t, connected) ==
    /\ tasks[t].pc = "connecting"
    /\ LET tk == tasks[t]
           network == NetworkOf(tk)
           client == [namespace |-> network, n |-> connects[network] + 1]
       IN  IF connected
           THEN /\ network_clients' = CacheInsert(network_clients, network, client)
                /\ connects' = [connects EXCEPT ![network] = @ + 1]
                /\ tasks' = [tasks EXCEPT ![t] = SendRequest(tk, client)]
           ELSE /\ tasks' = [tasks EXCEPT ![t] = Fail(tk, "TransportError")]
                /\ UNCHANGED <<network_clients, connects>>
    /\ lock' = guard_dropped_at_return(t)
    /\ UNCHANGED <<networks, sel, par, adp>>

\* ------------------------------------------------------------ dispatch
\* query_did_doc_by_str up to its first await
query_did_doc_by_str(tk) == AwaitClient(tk, "query_did_doc_by_str")

\* resolve_resource_by_id up to its first await
resolve_resource_by_id(tk, resource_id) ==
    AwaitClient([tk EXCEPT !.resource_id = resource_id], "resolve_resource_by_id")

\* resolve_resource_by_name_type_and_time up to its first await
resolve_resource_by_name_type_and_time(tk, time) ==
    AwaitClient([tk EXCEPT !.time = Some(time)], "resolve_resource_by_name_type_and_time")

\* query_resource_by_str falling back to an exact-id lookup of the empty id
\* when the query is absent or lacks the name or the type
query_resource_by_str_id_fallback(tk, now) ==
    LET query == Unwrap(tk.parsed).query
        qmap == Unwrap(query)
    IN  IF IsSome(query) /\ IsSome(Get(qmap, "resourceId"))
        THEN resolve_resource_by_id(tk, Unwrap(Get(qmap, "resourceId")))
        ELSE IF IsSome(query)
        THEN LET resource_name == Get(qmap, "resourceName")
                 resource_type == Get(qmap, "resourceType")
                 version_time == Get(qmap, "resourceVersionTime")
             IN  IF ~(IsSome(resource_name) /\ IsSome(resource_type))
                 THEN resolve_resource_by_id(tk, "")
                 ELSE IF ~IsSome(version_time)
                 THEN resolve_resource_by_name_type_and_time(tk, now)
                 ELSE IF ~IsSome(parse_from_rfc3339(Unwrap(version_time)))
                 THEN Fail(tk, "InvalidDidUrl")
                 ELSE resolve_resource_by_name_type_and_time(
                          tk, Unwrap(parse_from_rfc3339(Unwrap(version_time))))
        ELSE resolve_resource_by_id(tk, "")

\* query_resource_by_str with an unparsable resourceVersionTime read as now
query_resource_by_str_lenient(tk, now) ==
    LET query == Unwrap(tk.parsed).query
        qmap == Unwrap(query)
    IN  IF IsSome(query) /\ IsSome(Get(qmap, "resourceId"))
        THEN resolve_resource_by_id(tk, Unwrap(Get(qmap, "resourceId")))
        ELSE IF IsSome(query)
        THEN LET resource_name == Get(qmap, "resourceName")
                 resource_type == Get(qmap, "resourceType")
                 version_time == Get(qmap, "resourceVersionTime")
             IN  IF ~(IsSome(resource_name) /\ IsSome(resource_type))
                 THEN Fail(tk, "InvalidDidUrl")
                 ELSE IF ~IsSome(version_time)
                         \/ ~IsSome(parse_from_rfc3339(Unwrap(version_time)))
                 THEN resolve_resource_by_name_type_and_time(tk, now)
                 ELSE resolve_resource_by_name_type_and_time(
                          tk, Unwrap(parse_from_rfc3339(Unwrap(version_time))))
        ELSE Fail(tk, "InvalidDidUrl")

\* query_resource_by_str with the name and type selector tried first
query_resource_by_str_name_first(tk, now) ==
    LET query == Unwrap(tk.parsed).query
        qmap == Unwrap(query)
    IN  IF IsSome(query) /\ IsSome(Get(qmap, "resourceName"))
           /\ IsSome(Get(qmap, "resourceType"))
        THEN LET version_time == Get(qmap, "resourceVersionTime")
             IN  IF ~IsSome(version_time)
                 THEN resolve_resource_by_name_type_and_time(tk, now)
                 ELSE IF ~IsSome(parse_from_rfc3339(Unwrap(version_time)))
                 THEN Fail(tk, "InvalidDidUrl")
                 ELSE resolve_resource_by_name_type_and_time(
                          tk, Unwrap(parse_from_rfc3339(Unwrap(version_time))))
        ELSE IF IsSome(query) /\ IsSome(Get(qmap, "resourceId"))
        THEN resolve_resource_by_id(tk, Unwrap(Get(qmap, "resourceId")))
        ELSE Fail(tk, "InvalidDidUrl")

\* query_resource_by_str up to its first await, or to its early return
query_resource_by_str(tk, now) ==
    LET query == Unwrap(tk.parsed).query
        qmap == Unwrap(query)
    IN  IF IsSome(query) /\ IsSome(Get(qmap, "resourceId"))
        THEN resolve_resource_by_id(tk, Unwrap(Get(qmap, "resourceId")))
        ELSE IF IsSome(query)
        THEN LET resource_name == Get(qmap, "resourceName")
                 resource_type == Get(qmap, "resourceType")
                 version_time == Get(qmap, "resourceVersionTime")
             IN  IF ~(IsSome(resource_name) /\ IsSome(resource_type))
                 THEN Fail(tk, "InvalidDidUrl")
                 ELSE IF ~IsSome(version_time)
                 THEN resolve_resource_by_name_type_and_time(tk, now)
                 ELSE IF ~IsSome(parse_from_rfc3339(Unwrap(version_time)))
                 THEN Fail(tk, "InvalidDidUrl")
                 ELSE resolve_resource_by_name_type_and_time(
                          tk, Unwrap(parse_from_rfc3339(Unwrap(version_time))))
        ELSE Fail(tk, "InvalidDidUrl")

\* a caller starts query_did_doc_by_str or query_resource_by_str on `parsed`
Call(t, call) ==
    /\ tasks[t].pc = "idle"
    /\ LET tk == [Idle EXCEPT !.op = call.op, !.parsed = Some(call.parsed),
                              !.now = Some(call.now)]
       IN  tasks' = [tasks EXCEPT
               ![t] = IF call.op = "doc" THEN query_did_doc_by_str(tk)
                      ELSE query_resource_by_str(tk, call.now)]
    /\ UNCHANGED <<networks, network_clients, lock, connects, sel, par, adp>>

\* OnStatus that sends the request again
OnStatus_retry(tk) ==
    SendRequest([tk EXCEPT !.fails = @ + 1], Unwrap(tk.client))

\* `.map_err(|e| DidCheqdError::NonSuccessResponse(..))?` on a tonic Status
OnStatus(tk) == Fail(tk, "NonSuccessResponse")

\* the request the response answers: the service returns what was asked for
Served(tk) == tk.rpcs[Len(tk.rpcs)]

\* query_did_doc_by_str from the response on (lines 181-189, 199-207)
DocResponse(tk, resp) ==
    IF resp.status = "err" THEN OnStatus(tk)
    ELSE IF ~IsSome(resp.value) THEN Fail(tk, "InvalidResponse")
    ELSE IF ~IsSome(Unwrap(resp.value).did_doc) THEN Fail(tk, "InvalidResponse")
    ELSE Succeed(tk, <<Unwrap(Unwrap(resp.value).did_doc), Served(tk).id, Served(tk).version>>,
                 Unwrap(resp.value).metadata)

\* resolve_resource_by_id from the response on (lines 286-306)
ResourceResponse(tk, resp) ==
    IF resp.status = "err" THEN OnStatus(tk)
    ELSE IF ~IsSome(resp.resource) THEN Fail(tk, "InvalidResponse")
    ELSE IF ~IsSome(Unwrap(resp.resource).resource) THEN Fail(tk, "InvalidResponse")
    ELSE IF ~IsSome(Unwrap(resp.resource).metadata) THEN Fail(tk, "InvalidResponse")
    ELSE LET media_type == Unwrap(Unwrap(resp.resource).metadata)
         IN  Succeed(tk, <<Unwrap(Unwrap(resp.resource).resource),
                           Served(tk).collection_id, Served(tk).id>>,
                     IF ~TrimIsEmpty(media_type) THEN Some(media_type) ELSE None)

\* resolve_resource_by_name_type_and_time from the response on (lines 331-348)
ListResponse(tk, resp) ==
    IF resp.status = "err" THEN OnStatus(tk)
    ELSE LET qmap == Unwrap(Unwrap(tk.parsed).query)
             resource_meta == SelectResource(resp.resources, qmap["resourceName"],
                                             qmap["resourceType"], Unwrap(tk.time))
             seen == [tk EXCEPT !.listing = Some(resp.resources)]
         IN  IF ~IsSome(resource_meta)
             THEN Fail(seen, "ResourceNotFound")
             ELSE resolve_resource_by_id(seen, Unwrap(resource_meta).id)

\* the kind of response the function `fn` awaits
Awaited(fn) ==
    CASE fn = "query_did_doc_by_str" -> "doc"
      [] fn = "resolve_resource_by_id" -> "resource"
      [] OTHER -> "list"

\* the response to t's outstanding request arrives
RpcReturn(t, resp) ==
    /\ tasks[t].pc = "await"
    /\ resp.kind = Awaited(tasks[t].fn)
    /\ tasks' = [tasks EXCEPT
           ![t] = CASE resp.kind = "doc" -> DocResponse(tasks[t], resp)
                    [] resp.kind = "resource" -> ResourceResponse(tasks[t], resp)
                    [] OTHER -> ListResponse(tasks[t], resp)]
    /\ UNCHANGED <<networks, network_clients, lock, connects, sel, par, adp>>

\* the caller takes the result of its call
Return(t) ==
    /\ tasks[t].pc = "done"
    /\ tasks' = [tasks EXCEPT ![t] = Idle]
    /\ UNCHANGED <<networks, network_clients, lock, connects, sel, par, adp>>

\* ------------------------------------------------- selection on its own
SelectNames == {<<"n1", "t1">>, <<"n2", "t1">>, <<"n1", "t2">>}
SelectCreated ==
    {None, Some(Ts(0, 0)), Some(Ts(5, 0)), Some(Ts(10, 0)), Some(Ts(9, 3 * HalfSecond))}
SelectTimes == {Ts(10, 0), Ts(10, HalfSecond), Ts(11, 0)}
ResourceIds == <<"r1", "r2", "r3", "r4", "r5", "r6">>

NoSel == [listing |-> <<>>, time |-> Ts(0, 0), out |-> None, applied |-> FALSE]

\* the collection gains an entry, listed behind the others
Listed(names, created) ==
    /\ ~sel.applied
    /\ Len(sel.listing) < MaxLen
    /\ sel' = [sel EXCEPT !.listing =
                   Append(@, Meta(ResourceIds[Len(@) + 1], names[1], names[2], created))]
    /\ UNCHANGED <<networks, network_clients, lock, tasks, connects, par, adp>>

\* the selection of resolve_resource_by_name_type_and_time (lines 332-337)
\* applied to the listing, for the name "n1", the type "t1" and the as-of time
Select(time) ==
    /\ ~sel.applied
    /\ sel' = [sel EXCEPT !.time = time,
                          !.out = SelectResource(sel.listing, "n1", "t1", time),
                          !.applied = TRUE]
    /\ UNCHANGED <<networks, network_clients, lock, tasks, connects, par, adp>>

\* ----------------------------------------------------------------- parser
\* A string is a sequence of atoms: the delimiter characters below, each an
\* atom of its own, and words, which hold no delimiter and never stand next
\* to each other.  The empty string is <<>>.
Delimiters == {":", "/", "?", "&", "="}

\* the text of an atom sequence
RECURSIVE Join(_)
Join(s) == IF s = <<>> THEN "" ELSE Head(s) \o Join(Tail(s))

METHOD_PREFIX == <<"did", ":", "cheqd", ":">>

DEFAULT_NAMESPACE == "mainnet"

\* str::starts_with
starts_with(s, p) == Len(s) >= Len(p) /\ SubSeq(s, 1, Len(p)) = p

\* str::contains
contains(s, d) == \E i \in 1 .. Len(s) : s[i] = d

\* str::find: the first position of d in s, 0 when there is none
find(s, d) ==
    IF contains(s, d)
    THEN CHOOSE i \in 1 .. Len(s) : s[i] = d /\ \A j \in 1 .. i - 1 : s[j] # d
    ELSE 0

\* str::split_once: Some(<<before, after>>) around the first d
split_once(s, d) ==
    IF contains(s, d)
    THEN Some(<<SubSeq(s, 1, find(s, d) - 1), SubSeq(s, find(s, d) + 1, Len(s))>>)
    ELSE None

\* str::trim_start_matches: every leading d is removed
RECURSIVE trim_start_matches(_, _)
trim_start_matches(s, d) ==
    IF s # <<>> /\ Head(s) = d THEN trim_start_matches(Tail(s), d) ELSE s

\* str::split(..).collect(): the pieces between the d's, at least one piece
RECURSIVE split(_, _)
split(s, d) ==
    IF contains(s, d)
    THEN <<SubSeq(s, 1, find(s, d) - 1)>> \o split(SubSeq(s, find(s, d) + 1, Len(s)), d)
    ELSE <<s>>

\* HashMap::insert
insert(m, k, v) == [x \in DOMAIN m \cup {k} |-> IF x = k THEN v ELSE m[x]]

\* collect::<HashMap<_, _>>() over the pieces that hold a '='
RECURSIVE collect(_)
collect(pieces) ==
    IF pieces = <<>> THEN <<>>
    ELSE LET front == collect(SubSeq(pieces, 1, Len(pieces) - 1))
             kv == split_once(pieces[Len(pieces)], "=")
         IN IF IsSome(kv)
            THEN insert(front, Join(Unwrap(kv)[1]), Join(Unwrap(kv)[2]))
            ELSE front

parse_query_string(q) == collect(split(q, "&"))

ParseErr(kind, msg) == [ok |-> FALSE, err |-> kind, msg |-> msg, value |-> None]
ParseOk(parsed) == [ok |-> TRUE, err |-> "", msg |-> "", value |-> Some(parsed)]

\* the leading words of the three messages parse gives its errors
NOT_CHEQD == "not a did:cheqd string"
UNSUPPORTED_FORMAT == "unsupported path format"
UNSUPPORTED_SEGMENT == "unsupported path segment"

\* the prefix test with the colon after the method name left out
is_cheqd_without_colon(input) == starts_with(input, <<"did", ":", "cheqd">>)

\* parse: the method prefix test
is_cheqd(input) == starts_with(input, METHOD_PREFIX)

\* the namespace split at the last ':' instead of the first
split_namespace_at_last(id_part) ==
    IF contains(id_part, ":")
    THEN LET i == CHOOSE i \in 1 .. Len(id_part) :
                      id_part[i] = ":" /\ \A j \in i + 1 .. Len(id_part) : id_part[j] # ":"
         IN <<Join(SubSeq(id_part, 1, i - 1)), Join(SubSeq(id_part, i + 1, Len(id_part)))>>
    ELSE <<DEFAULT_NAMESPACE, Join(id_part)>>

\* parse: namespace and id of the id part
split_namespace(id_part) ==
    LET ns_id == split_once(id_part, ":")
    IN IF IsSome(ns_id)
       THEN <<Join(Unwrap(ns_id)[1]), Join(Unwrap(ns_id)[2])>>
       ELSE <<DEFAULT_NAMESPACE, Join(id_part)>>

\* the path segments with any count of two or more accepted
path_error_at_least_two(parts) ==
    IF Len(parts) < 2 THEN Some(UNSUPPORTED_FORMAT)
    ELSE IF parts[1] \notin {<<"resources">>, <<"versions">>} THEN Some(UNSUPPORTED_SEGMENT)
    ELSE None

\* parse: the message of the path error, if the path is in error
path_error(parts) ==
    IF Len(parts) # 2 THEN Some(UNSUPPORTED_FORMAT)
    ELSE IF parts[1] \notin {<<"resources">>, <<"versions">>} THEN Some(UNSUPPORTED_SEGMENT)
    ELSE None

\* the resources arm keeping a resourceId the query already has
path_query_keeps_query_id(parts, query) ==
    IF parts[1] = <<"resources">>
    THEN IF IsSome(query)
         THEN IF "resourceId" \in DOMAIN Unwrap(query) THEN query
              ELSE Some(insert(Unwrap(query), "resourceId", Join(parts[2])))
         ELSE Some(insert(<<>>, "resourceId", Join(parts[2])))
    ELSE query

\* the versions arm also inserting the version into the query map
path_query_with_version(parts, query) ==
    IF parts[1] = <<"resources">>
    THEN IF IsSome(query)
         THEN Some(insert(Unwrap(query), "resourceId", Join(parts[2])))
         ELSE Some(insert(<<>>, "resourceId", Join(parts[2])))
    ELSE IF IsSome(query)
         THEN Some(insert(Unwrap(query), "versionId", Join(parts[2])))
         ELSE Some(insert(<<>>, "versionId", Join(parts[2])))

\* parse: the query map after the path's match arm
path_query(parts, query) ==
    IF parts[1] = <<"resources">>
    THEN IF IsSome(query)
         THEN Some(insert(Unwrap(query), "resourceId", Join(parts[2])))
         ELSE Some(insert(<<>>, "resourceId", Join(parts[2])))
    ELSE query

\* parse: the version after the path's match arm
path_version(parts) ==
    IF parts[1] = <<"versions">> THEN Some(Join(parts[2])) ELSE None

\* the versionId of the query used only when the path gave no version
version_override_path_first(query, version) ==
    IF IsSome(query) /\ "versionId" \in DOMAIN Unwrap(query) /\ ~IsSome(version)
    THEN Some(Unwrap(query)["versionId"])
    ELSE version

\* parse: the versionId of the query overrides the version
version_override(query, version) ==
    IF IsSome(query) /\ "versionId" \in DOMAIN Unwrap(query)
    THEN Some(Unwrap(query)["versionId"])
    ELSE version

\* DidCheqdParser::parse
parse(input) ==
    IF ~is_cheqd(input) THEN ParseErr("MethodNotSupported", NOT_CHEQD)
    ELSE
    LET base_query == split_once(input, "?")
        base == IF IsSome(base_query) THEN Unwrap(base_query)[1] ELSE input
        query_opt == IF IsSome(base_query) THEN Some(Unwrap(base_query)[2]) ELSE None
        rest == SubSeq(base, Len(METHOD_PREFIX) + 1, Len(base))
        p_suf == split_once(rest, "/")
        id_part == IF IsSome(p_suf) THEN Unwrap(p_suf)[1] ELSE rest
        path_opt == IF IsSome(p_suf)
                    THEN Some(SubSeq(rest, Len(id_part) + 1, Len(rest)))
                    ELSE None
        ns_id == split_namespace(id_part)
        query == IF IsSome(query_opt)
                 THEN Some(parse_query_string(Unwrap(query_opt)))
                 ELSE None
        parts == IF IsSome(path_opt)
                 THEN split(trim_start_matches(Unwrap(path_opt), "/"), "/")
                 ELSE <<>>
    IN IF IsSome(path_opt) /\ IsSome(path_error(parts))
       THEN ParseErr("InvalidDidUrl", Unwrap(path_error(parts)))
       ELSE LET query1 == IF IsSome(path_opt) THEN path_query(parts, query) ELSE query
                version == IF IsSome(path_opt) THEN path_version(parts) ELSE None
            IN ParseOk(Parsed(ns_id[1], ns_id[2], query1,
                              version_override(query1, version)))

\* the inputs handed to parse: a prefix, an id part, a path and a query
InputPrefixes ==
    {METHOD_PREFIX, <<"did", ":", "xyz", ":">>, <<"did", ":", "cheqd">>, <<>>}

InputIdParts ==
    {<<"abc">>, <<"mainnet", ":", "abc">>, <<"testnet", ":", "abc">>,
     <<"a", ":", "b", ":", "c">>, <<":", "abc">>, <<>>}

InputPaths ==
    {<<>>,
     <<"/", "resources", "/", "r1">>,
     <<"/", "versions", "/", "v1">>,
     <<"/", "invalid", "/", "r1">>,
     <<"/", "resources", "/">>,
     <<"/", "versions", "/">>,
     <<"/", "/", "resources", "/", "r1">>,
     <<"/">>,
     <<"/", "/">>,
     <<"/", "resources">>,
     <<"/", "resources", "/", "r1", "/", "x">>,
     <<"/", "versions", "/", "v1", "/">>}

InputQueries ==
    {<<>>,
     <<"?">>,
     <<"?", "resourceName", "=", "foo">>,
     <<"?", "resourceName", "=", "foo", "&", "resourceType", "=", "bar">>,
     <<"?", "versionId", "=", "v2">>,
     <<"?", "versionId", "=", "v2", "&", "versionId", "=", "v3">>,
     <<"?", "versionId", "=">>,
     <<"?", "resourceId", "=", "r9">>,
     <<"?", "resourceId", "=", "r9", "&", "versionId", "=", "v2">>,
     <<"?", "versionId">>,
     <<"?", "resourceName", "=", "foo", "&", "bar">>,
     <<"?", "a", "=", "b", "=", "c">>,
     <<"?", "a", "=", "/", "versions", "/", "v1">>,
     <<"?", "a", "=", "b", "?", "versionId", "=", "v2">>}

\* no two words stand next to each other
WellFormed(s) ==
    \A i \in 1 .. Len(s) - 1 : s[i] \in Delimiters \/ s[i + 1] \in Delimiters

Inputs ==
    {s \in {a \o b \o c \o d : a \in InputPrefixes, b \in InputIdParts,
                               c \in InputPaths, d \in InputQueries} :
       WellFormed(s)}

\* no call of parse made yet
NoPar == [input |-> None, result |-> None]

\* a caller hands input to parse, a pure function: one call is followed
Given(input) ==
    /\ par = NoPar
    /\ par' = [input |-> Some(input), result |-> None]
    /\ UNCHANGED <<networks, network_clients, lock, tasks, connects, sel, adp>>

\* parse returns
Parse ==
    /\ IsSome(par.input) /\ par.result = None
    /\ par' = [par EXCEPT !.result = Some(parse(Unwrap(par.input)))]
    /\ UNCHANGED <<networks, network_clients, lock, tasks, connects, sel, adp>>

\* ---------------------------------------------------------------- adapter
\* the method-specific ids handed to the adapter
MethodSpecificIds ==
    {<<>>,
     <<"abc">>,
     <<"mainnet", ":", "abc">>,
     <<"testnet", ":", "abc">>,
     <<"abc", "/", "resources", "/", "r1">>,
     <<"mainnet", ":", "abc", "/", "versions", "/", "v1">>,
     <<"abc", "?", "resourceName", "=", "foo", "&", "resourceType", "=", "bar">>,
     <<"abc", "/", "resources", "/", "r1", "?", "versionId", "=", "v2">>,
     <<"did", ":", "cheqd", ":", "mainnet", ":", "abc", "/", "resources", "/", "r1">>,
     <<"/">>,
     <<"?">>}

\* Options.accept
Accepts == {None, Some("application/did+json"), Some("application/did+ld+json")}

JsonLd == "application/did+ld+json"

\* the errors of the engine, by kind
EngineErrors ==
    {"MethodNotSupported", "InvalidDidUrl", "NetworkNotSupported", "BadConfiguration",
     "TransportError", "NonSuccessResponse", "InvalidResponse", "ResourceNotFound"}

\* what query_resource_by_str returns to the adapter
ResourceResults ==
    {Err(e) : e \in EngineErrors}
    \cup {Ok("data", m) : m \in {None, Some("application/json")}}

\* what query_did_doc_by_str returns to the adapter
DocResults ==
    {Err(e) : e \in EngineErrors}
    \cup {Ok("did_doc", m) : m \in {None, Some([deactivated |-> FALSE]),
                                    Some([deactivated |-> TRUE])}}

\* Error::internal
Internal(msg) == [ok |-> FALSE, err |-> "internal", msg |-> msg, value |-> None]

\* Output::new
Output(content, deactivated, content_type) ==
    [ok |-> TRUE, err |-> "", msg |-> "",
     value |-> Some([content |-> content,
                     document_metadata |-> [deactivated |-> deactivated],
                     content_type |-> content_type])]

\* no call of the adapter made yet
NoAdp ==
    [pc |-> "idle", id |-> None, accept |-> None, calls |-> <<>>,
     engine |-> None, output |-> None]

\* the routing test with the '?' left out
is_did_url_slash_only(method_specific_id) == contains(method_specific_id, "/")

\* resolve_method_representation: the routing test
is_did_url(method_specific_id) ==
    contains(method_specific_id, "/") \/ contains(method_specific_id, "?")

\* resolve_method_representation: the engine operation invoked and its argument
engine_call(method_specific_id) ==
    IF is_did_url(method_specific_id)
    THEN [op |-> "query_resource_by_str", arg |-> Join(method_specific_id)]
    ELSE [op |-> "query_did_doc_by_str",
          arg |-> "did:cheqd:" \o Join(method_specific_id)]

\* resolve_method_representation: the match on the resource result
resource_output(res) ==
    IF res.ok
    THEN Output(Unwrap(res.value)[1], None, Unwrap(res.value)[2])
    ELSE Internal("cheqd resolver error: " \o res.err)

\* resolve_method_representation: the match on the document result
document_output(res, accept, transformed, serialized) ==
    IF ~res.ok THEN Internal("cheqd resolver error: " \o res.err)
    ELSE IF ~transformed THEN Internal("cheqd transform error")
    ELSE IF ~serialized THEN Internal("failed to serialize DID document")
    ELSE Output([json |-> Unwrap(res.value)[1]],
                IF IsSome(Unwrap(res.value)[2])
                THEN Some(Unwrap(Unwrap(res.value)[2]).deactivated)
                ELSE None,
                Some(IF IsSome(accept) THEN Unwrap(accept) ELSE JsonLd))

\* resolve_method_representation is called and awaits the engine
Resolve(method_specific_id, accept) ==
    /\ adp.pc = "idle"
    /\ adp' = [adp EXCEPT !.pc = "awaiting",
                          !.id = Some(method_specific_id),
                          !.accept = accept,
                          !.calls = Append(@, engine_call(method_specific_id))]
    /\ UNCHANGED <<networks, network_clients, lock, tasks, connects, sel, par>>

\* query_resource_by_str returns to the adapter, which returns
ResourceReturn(res) ==
    /\ adp.pc = "awaiting"
    /\ adp.calls[Len(adp.calls)].op = "query_resource_by_str"
    /\ adp' = [adp EXCEPT !.pc = "done",
                          !.engine = Some(res),
                          !.output = Some(resource_output(res))]
    /\ UNCHANGED <<networks, network_clients, lock, tasks, connects, sel, par>>

\* query_did_doc_by_str returns to the adapter, which returns
DocumentReturn(res, transformed, serialized) ==
    /\ adp.pc = "awaiting"
    /\ adp.calls[Len(adp.calls)].op = "query_did_doc_by_str"
    /\ adp' = [adp EXCEPT !.pc = "done",
                          !.engine = Some(res),
                          !.output = Some(document_output(res, adp.accept,
                                                          transformed, serialized))]
    /\ UNCHANGED <<networks, network_clients, lock, tasks, connects, sel, par>>

\* ---------------------------------------------------------- specifications
\* DidCheqdResolver::new
InitEngine ==
    /\ networks \in Configurations
    /\ network_clients = <<>>
    /\ lock = 0
    /\ tasks = [t \in Tasks |-> Idle]
    /\ connects = [n \in Namespaces |-> 0]

Init == InitEngine /\ sel = NoSel /\ par = NoPar /\ adp = NoAdp

Next ==
    \/ \E t \in Tasks, call \in ConcurrentCalls : Call(t, call)
    \/ \E t \in Tasks, tls_ok \in BOOLEAN : AcquireLock(t, tls_ok)
    \/ \E t \in Tasks, connected \in BOOLEAN : ConnectReturn(t, connected)
    \/ \E t \in Tasks, resp \in ConcurrentResponses : RpcReturn(t, resp)
    \/ \E t \in Tasks : Return(t)

Spec == Init /\ [][Next]_vars

\* the calls and responses of the callers whose termination is followed: a
\* document on a configured and on an unconfigured namespace, and an exact-id
\* resource on a configured one
LiveCalls ==
    {CallOf("doc", Parsed(n, i, None, None), Ts(20, 0)) :
        n \in {MAINNET_NAMESPACE, DEVNET_NAMESPACE}, i \in DidIds}
    \cup {CallOf("resource", Parsed(MAINNET_NAMESPACE, i, Some([resourceId |-> "r3"]), None),
                 Ts(20, 0)) : i \in DidIds}

LiveResponses == {resp \in ConcurrentResponses : resp.kind \in {"doc", "resource"}}

NextLive ==
    \/ \E t \in Tasks, call \in LiveCalls : Call(t, call)
    \/ \E t \in Tasks, tls_ok \in BOOLEAN : AcquireLock(t, tls_ok)
    \/ \E t \in Tasks, connected \in BOOLEAN : ConnectReturn(t, connected)
    \/ \E t \in Tasks, resp \in LiveResponses : RpcReturn(t, resp)
    \/ \E t \in Tasks : Return(t)

\* the scheduling the engine runs under: the tokio mutex grants the lock to its
\* waiters in turn, and every connection attempt and every RPC returns
Fairness ==
    \A t \in Tasks :
        /\ SF_vars(\E tls_ok \in BOOLEAN : AcquireLock(t, tls_ok))
        /\ WF_vars(\E connected \in BOOLEAN : ConnectReturn(t, connected))
        /\ WF_vars(\E resp \in LiveResponses : RpcReturn(t, resp))

SpecLive == Init /\ [][NextLive]_vars /\ Fairness

NextSeq ==
    \/ \E call \in AllCalls : Call(1, call)
    \/ \E tls_ok \in BOOLEAN : AcquireLock(1, tls_ok)
    \/ \E connected \in BOOLEAN : ConnectReturn(1, connected)
    \/ \E resp \in AllResponses : RpcReturn(1, resp)
    \/ Return(1)

SpecSeq == Init /\ [][NextSeq]_vars

NextSelect ==
    \/ \E names \in SelectNames, created \in SelectCreated : Listed(names, created)
    \/ \E time \in SelectTimes : Select(time)

SpecSelect == Init /\ [][NextSelect]_vars

NextParse ==
    \/ \E input \in Inputs : Given(input)
    \/ Parse

SpecParse == Init /\ [][NextParse]_vars

NextAdapter ==
    \/ \E id \in MethodSpecificIds, accept \in Accepts : Resolve(id, accept)
    \/ \E res \in ResourceResults : ResourceReturn(res)
    \/ \E res \in DocResults, transformed \in BOOLEAN, serialized \in BOOLEAN :
          DocumentReturn(res, transformed, serialized)

SpecAdapter == Init /\ [][NextAdapter]_vars

\* ------------------------------------------------------------------ claims
\* instant a strictly earlier than instant b, at full precision
Earlier(a, b) ==
    LET x == normalized(a)
        y == normalized(b)
    IN  x.seconds < y.seconds \/ (x.seconds = y.seconds /\ x.nanos < y.nanos)

\* the entries of `listing` that qualify for (name, rtyp, time): equal name and
\* type, and a creation timestamp strictly earlier than the as-of time
Qualifying(listing, name, rtyp, time) ==
    {i \in 1 .. Len(listing) :
        /\ listing[i].name = name
        /\ listing[i].resource_type = rtyp
        /\ IsSome(listing[i].created)
        /\ Earlier(Unwrap(listing[i].created), time)}

\* C1: the name/type/time lookup selects the entry with the latest creation
\* timestamp among the entries of equal name and type created strictly earlier
\* than the as-of time.
C1_SelectsLatestStrictlyEarlier ==
    sel.applied =>
        LET Q == Qualifying(sel.listing, "n1", "t1", sel.time)
        IN  /\ Q = {} => sel.out = None
            /\ Q # {} =>
                 /\ IsSome(sel.out)
                 /\ \E i \in Q : sel.listing[i] = Unwrap(sel.out)
                 /\ \A j \in Q : ~Earlier(Unwrap(Unwrap(sel.out).created),
                                          Unwrap(sel.listing[j].created))

\* the calls that ran the name/type/time lookup up to its listing
ReachedListing(t) == tasks[t].op = "resource" /\ IsSome(tasks[t].listing)

QueryOf(t) == Unwrap(Unwrap(tasks[t].parsed).query)

\* C2: the name/type/time lookup fails with ResourceNotFound, returning no
\* payload, whenever no listed entry has the requested name and type and a
\* creation timestamp strictly earlier than the as-of time.
C2_NotFoundWhenNoneQualifies ==
    \A t \in Tasks :
        (/\ ReachedListing(t)
         /\ Qualifying(Unwrap(tasks[t].listing), QueryOf(t)["resourceName"],
                       QueryOf(t)["resourceType"], Unwrap(tasks[t].time)) = {})
        => /\ tasks[t].pc = "done"
           /\ tasks[t].result = Some(Err("ResourceNotFound"))
           /\ Len(tasks[t].rpcs) = 1

\* a lookup whose matching entries were all created at or after the as-of time
C2_Witness ==
    \E t \in Tasks :
        /\ ReachedListing(t)
        /\ Unwrap(tasks[t].listing) = ListingLate
        /\ tasks[t].time = Some(Ts(20, 0))
        /\ tasks[t].result = Some(Err("ResourceNotFound"))

\* the listing request of a call on the collection `id`
ListRpc(id) == Rpc("CollectionResources", "", id, "")

\* the exact-id request for the resource `rid` of the collection `id`
GetRpc(id, rid) == Rpc("Resource", rid, id, "")

Succeeded(t) == tasks[t].pc = "done" /\ Unwrap(tasks[t].result).ok

HasKey(t, k) ==
    IsSome(Unwrap(tasks[t].parsed).query) /\ k \in DOMAIN QueryOf(t)

\* C3: a successful name/type/time resolution issues the listing of the
\* collection parsed.id and then the exact-id request for the entry selected
\* from that listing, and nothing else; a successful exact-id or document
\* resolution issues one request; no call issues more than two.
C3_OneOrTwoRpcs ==
    \A t \in Tasks :
        /\ Len(tasks[t].rpcs) <= 2
        /\ (tasks[t].op = "doc" \/ (tasks[t].op = "resource" /\ HasKey(t, "resourceId")))
              => Len(tasks[t].rpcs) <= 1
        /\ Succeeded(t) =>
              LET p == Unwrap(tasks[t].parsed) IN
              IF tasks[t].op = "doc" THEN Len(tasks[t].rpcs) = 1
              ELSE IF HasKey(t, "resourceId")
              THEN tasks[t].rpcs = <<GetRpc(p.id, QueryOf(t)["resourceId"])>>
              ELSE /\ IsSome(tasks[t].listing)
                   /\ LET selected == SelectResource(Unwrap(tasks[t].listing),
                                                     QueryOf(t)["resourceName"],
                                                     QueryOf(t)["resourceType"],
                                                     Unwrap(tasks[t].time))
                      IN  /\ IsSome(selected)
                          /\ tasks[t].rpcs =
                                <<ListRpc(p.id), GetRpc(p.id, Unwrap(selected).id)>>

\* a successful name/type/time resolution, with its two requests
C3_Witness ==
    \E t \in Tasks :
        /\ Succeeded(t)
        /\ ReachedListing(t)
        /\ tasks[t].rpcs = <<ListRpc("c1"), GetRpc("c1", "r1")>>

\* the namespaces of the configured networks
Configured == {networks[i].namespace : i \in 1 .. Len(networks)}

\* C4: a document resolution for a namespace of no configured network fails
\* with NetworkNotSupported, whatever the cache holds, without a connection
\* attempt and without a request.
C4_UnconfiguredNamespaceFails ==
    \A t \in Tasks :
        (tasks[t].op = "doc" /\ NetworkOf(tasks[t]) \notin Configured)
        => /\ tasks[t].pc \in {"lock", "done"}
           /\ tasks[t].attempts = 0
           /\ tasks[t].rpcs = <<>>
           /\ tasks[t].client = None
           /\ tasks[t].pc = "done" => tasks[t].result = Some(Err("NetworkNotSupported"))

\* the failure, in an engine that holds a connection from an earlier call
C4_Witness ==
    \E t \in Tasks :
        /\ tasks[t].op = "doc"
        /\ NetworkOf(tasks[t]) \notin Configured
        /\ tasks[t].result = Some(Err("NetworkNotSupported"))
        /\ network_clients # <<>>

\* C5: a call that asks for the client of a namespace the cache holds gets the
\* cached client, and no connection is established for a cached namespace.
C5_ConnectionReuse ==
    [][/\ \A n \in DOMAIN network_clients : connects'[n] = connects[n]
       /\ \A t \in Tasks :
            (/\ tasks[t].pc = "lock"
             /\ tasks'[t].pc # "lock"
             /\ NetworkOf(tasks[t]) \in DOMAIN network_clients)
            => /\ tasks'[t].pc = "await"
               /\ tasks'[t].client = Some(network_clients[NetworkOf(tasks[t])])
               /\ tasks'[t].attempts = tasks[t].attempts
               /\ network_clients' = network_clients]_vars

\* a call served from the cache: it holds a client without a connection attempt
C5_Witness ==
    \E t \in Tasks :
        /\ tasks[t].pc = "await"
        /\ tasks[t].attempts = 0
        /\ tasks[t].client = Some(network_clients[NetworkOf(tasks[t])])

\* the cache holds clients of configured namespaces, one per namespace
CacheInv ==
    /\ DOMAIN network_clients \subseteq Configured
    /\ Cardinality(DOMAIN network_clients) <= Len(networks)
    /\ \A n \in DOMAIN network_clients : network_clients[n].namespace = n
    /\ \A n \in Namespaces :
          Cardinality({k \in DOMAIN network_clients : network_clients[k].namespace = n}) <= 1

\* C6: the cache holds at most one client per namespace, only for configured
\* namespaces, and never loses an entry.
C6_CacheInvariant ==
    /\ []CacheInv
    /\ [][DOMAIN network_clients \subseteq DOMAIN network_clients']_vars

\* both networks of a configuration cached
C6_Witness == Cardinality(DOMAIN network_clients) = 2

\* the query of a resource call names no resourceId and is absent, or lacks
\* resourceName or resourceType, or carries an unparsable resourceVersionTime
InvalidSelector(t) ==
    /\ tasks[t].op = "resource"
    /\ ~HasKey(t, "resourceId")
    /\ \/ ~IsSome(Unwrap(tasks[t].parsed).query)
       \/ ~HasKey(t, "resourceName")
       \/ ~HasKey(t, "resourceType")
       \/ /\ HasKey(t, "resourceVersionTime")
          /\ ~IsSome(parse_from_rfc3339(QueryOf(t)["resourceVersionTime"]))

\* C7: a resource call without resourceId fails with InvalidDidUrl when the
\* query is absent, lacks resourceName or resourceType, or carries an
\* unparsable resourceVersionTime; without resourceVersionTime the as-of time
\* of the name/type lookup is the current time.
C7_InvalidDidUrl ==
    \A t \in Tasks :
        /\ InvalidSelector(t) =>
              /\ tasks[t].pc = "done"
              /\ tasks[t].result = Some(Err("InvalidDidUrl"))
        /\ (/\ tasks[t].op = "resource"
            /\ ~HasKey(t, "resourceId")
            /\ HasKey(t, "resourceName")
            /\ HasKey(t, "resourceType")
            /\ ~HasKey(t, "resourceVersionTime"))
           => /\ tasks[t].time = tasks[t].now
              /\ tasks[t].fn \in {"resolve_resource_by_name_type_and_time",
                                  "resolve_resource_by_id"}
              /\ tasks[t].pc = "done" => Unwrap(tasks[t].result).err # "InvalidDidUrl"

\* a complete name and type with an unparsable time, refused
C7_Witness ==
    \E t \in Tasks :
        /\ InvalidSelector(t)
        /\ HasKey(t, "resourceName")
        /\ HasKey(t, "resourceType")
        /\ HasKey(t, "resourceVersionTime")
        /\ tasks[t].result = Some(Err("InvalidDidUrl"))

\* C8: a resource call whose query has a resourceId runs the exact-id lookup
\* of that id in the collection parsed.id and never the listing, whatever
\* other keys the query has; the listing is requested only without resourceId
\* and with both resourceName and resourceType.
C8_SelectorPrecedence ==
    \A t \in Tasks :
        tasks[t].op = "resource" =>
            /\ HasKey(t, "resourceId") =>
                  /\ tasks[t].fn = "resolve_resource_by_id"
                  /\ tasks[t].resource_id = QueryOf(t)["resourceId"]
                  /\ tasks[t].listing = None
                  /\ \A i \in 1 .. Len(tasks[t].rpcs) :
                        tasks[t].rpcs[i] =
                            GetRpc(Unwrap(tasks[t].parsed).id, QueryOf(t)["resourceId"])
                  /\ tasks[t].pc = "done" => Unwrap(tasks[t].result).err # "InvalidDidUrl"
            /\ (\E i \in 1 .. Len(tasks[t].rpcs) :
                    tasks[t].rpcs[i].method = "CollectionResources")
               => /\ ~HasKey(t, "resourceId")
                  /\ HasKey(t, "resourceName")
                  /\ HasKey(t, "resourceType")

\* the exact-id lookup done for a query that also has a name, a type and an
\* unparsable time
C8_Witness ==
    \E t \in Tasks :
        /\ tasks[t].op = "resource"
        /\ HasKey(t, "resourceId")
        /\ HasKey(t, "resourceName")
        /\ HasKey(t, "resourceType")
        /\ HasKey(t, "resourceVersionTime")
        /\ QueryOf(t)["resourceVersionTime"] = TimeBad
        /\ Succeeded(t)

\* C9: a document call with parsed.version set issues the version-qualified
\* query of parsed.did and that version, and never the unqualified one; without
\* a version it issues the unqualified query of parsed.did, and never the
\* version-qualified one.
C9_DocumentDispatch ==
    \A t \in Tasks :
        tasks[t].op = "doc" =>
            LET p == Unwrap(tasks[t].parsed) IN
            /\ tasks[t].pc \in {"await", "done"} /\ IsSome(tasks[t].client)
                  => Len(tasks[t].rpcs) = 1
            /\ \A i \in 1 .. Len(tasks[t].rpcs) :
                  tasks[t].rpcs[i] =
                      IF IsSome(p.version)
                      THEN Rpc("DidDocVersion", p.did, "", Unwrap(p.version))
                      ELSE Rpc("DidDoc", p.did, "", "")

\* a version-qualified document query answered
C9_Witness ==
    \E t \in Tasks :
        /\ tasks[t].op = "doc"
        /\ IsSome(Unwrap(tasks[t].parsed).version)
        /\ Succeeded(t)
        /\ tasks[t].rpcs[1].method = "DidDocVersion"

\* C10: the first failed step of a call ends the call with its error: no step
\* runs after it, none is attempted again, and the error carries no payload.
C10_NoRetry ==
    \A t \in Tasks :
        /\ tasks[t].fails <= 1
        /\ tasks[t].after_fail = 0
        /\ tasks[t].attempts <= 1
        /\ tasks[t].fails = 1 =>
              /\ tasks[t].pc = "done"
              /\ IsSome(tasks[t].result)
              /\ ~Unwrap(tasks[t].result).ok
              /\ Unwrap(tasks[t].result).value = None
        /\ (tasks[t].pc = "done" /\ ~Unwrap(tasks[t].result).ok) => tasks[t].fails = 1

\* the exact-id request of a name/type/time lookup refused by the service
C10_Witness ==
    \E t \in Tasks :
        /\ tasks[t].result = Some(Err("NonSuccessResponse"))
        /\ Len(tasks[t].rpcs) = 2
        /\ tasks[t].attempts = 1

\* ---- the parser's claims
ParInput == Unwrap(par.input)
ParResult == Unwrap(par.result)
Returned == IsSome(par.result)
Accepted == Returned /\ ParResult.ok
Rejected == Returned /\ ~ParResult.ok
ParValue == Unwrap(ParResult.value)

\* the longest prefix of s holding none of the delimiters ds
RECURSIVE UpTo(_, _)
UpTo(s, ds) ==
    IF s = <<>> \/ Head(s) \in ds THEN <<>> ELSE <<Head(s)>> \o UpTo(Tail(s), ds)

After(s, n) == SubSeq(s, n + 1, Len(s))

HasPrefix(input) ==
    /\ Len(input) >= 4
    /\ input[1] = "did" /\ input[2] = ":" /\ input[3] = "cheqd" /\ input[4] = ":"

\* the text after the prefix up to the first '/' or '?'
IdPartOf(input) == UpTo(After(input, 4), {"/", "?"})

\* the text from the first '/' of the part before the query, up to the query
PathOf(input) == UpTo(After(input, 4 + Len(IdPartOf(input))), {"?"})

HasQueryString(input) == \E i \in 1 .. Len(input) : input[i] = "?"

\* the text after the first '?'
QueryStringOf(input) == After(input, Len(UpTo(input, {"?"})) + 1)

\* C12 as stated: an input without the prefix "did:cheqd:" is rejected with
\* the error kind MethodMismatch, and no input with the prefix is.
C12_MethodMismatch ==
    Returned =>
        /\ ~HasPrefix(ParInput) => (Rejected /\ ParResult.err = "MethodMismatch")
        /\ HasPrefix(ParInput) => ParResult.err # "MethodMismatch"

\* C12 amended: an input without the prefix "did:cheqd:" is rejected with the
\* error kind MethodNotSupported whatever the rest of the input holds, and no
\* input with the prefix is rejected for this reason.
C12_MethodNotSupported ==
    Returned =>
        /\ ~HasPrefix(ParInput) =>
              /\ Rejected
              /\ ParResult.err = "MethodNotSupported"
              /\ ParResult.msg = NOT_CHEQD
              /\ ParResult.value = None
        /\ HasPrefix(ParInput) => ParResult.err # "MethodNotSupported"

\* an input of another method, with a path parse would refuse, is rejected
C12_Witness ==
    /\ Rejected
    /\ ~HasPrefix(ParInput)
    /\ \E i \in 1 .. Len(ParInput) : ParInput[i] = "invalid"
    /\ ParResult.err = "MethodNotSupported"

\* C13: of an accepted input, the id part (after the prefix, up to the first
\* '/' or '?') is split at its first ':' into namespace and id; without a ':'
\* the namespace is "mainnet" and the id the whole id part; the did is
\* "did:cheqd:" + namespace + ":" + id and carries no path or query.
C13_NamespaceAndDid ==
    Accepted =>
        LET idp == IdPartOf(ParInput)
            ns == UpTo(idp, {":"})
        IN /\ Len(ns) < Len(idp) =>
                 /\ ParValue.namespace = Join(ns)
                 /\ ParValue.id = Join(After(idp, Len(ns) + 1))
                 /\ ParValue.did = Join(METHOD_PREFIX \o idp)
           /\ Len(ns) = Len(idp) =>
                 /\ ParValue.namespace = "mainnet"
                 /\ ParValue.id = Join(idp)
                 /\ ParValue.did = Join(METHOD_PREFIX \o <<"mainnet", ":">> \o idp)
           /\ ParValue.did = "did:cheqd:" \o ParValue.namespace \o ":" \o ParValue.id
           /\ \A i \in 1 .. Len(idp) : idp[i] \notin {"/", "?"}

\* an id part with two ':' followed by a path and a query
C13_Witness ==
    /\ Accepted
    /\ IdPartOf(ParInput) = <<"a", ":", "b", ":", "c">>
    /\ PathOf(ParInput) # <<>>
    /\ HasQueryString(ParInput)
    /\ ParValue.namespace = "a"
    /\ ParValue.id = "b:c"

\* the key=value pieces of the query string, in order
QueryPairsOf(input) ==
    LET pieces == IF HasQueryString(input) THEN split(QueryStringOf(input), "&") ELSE <<>>
    IN [i \in {j \in 1 .. Len(pieces) : \E k \in 1 .. Len(pieces[j]) : pieces[j][k] = "="} |->
           LET key == UpTo(pieces[i], {"="})
           IN [key |-> Join(key), value |-> Join(After(pieces[i], Len(key) + 1))]]

QueryKeysOf(input) == {QueryPairsOf(input)[i].key : i \in DOMAIN QueryPairsOf(input)}

\* the value of the last piece of the query string with the key
LastValueOf(input, key) ==
    LET pairs == QueryPairsOf(input)
        last == CHOOSE i \in DOMAIN pairs :
                    /\ pairs[i].key = key
                    /\ \A j \in DOMAIN pairs : pairs[j].key = key => j <= i
    IN pairs[last].value

\* the path is '/', the kind, '/' and one non-empty segment
IsPathOfKind(path, kind) ==
    /\ Len(path) = 4
    /\ path[1] = "/" /\ path[2] = kind /\ path[3] = "/"
    /\ path[4] \notin Delimiters

\* C14: an accepted input with the path /resources/R has a query mapping
\* whose resourceId is R, whether the input had no query string, one without
\* resourceId or one with another resourceId; its version is None unless the
\* query string has a versionId key.
C14_ResourcesPath ==
    (Accepted /\ IsPathOfKind(PathOf(ParInput), "resources")) =>
        /\ IsSome(ParValue.query)
        /\ "resourceId" \in DOMAIN Unwrap(ParValue.query)
        /\ Unwrap(ParValue.query)["resourceId"] = PathOf(ParInput)[4]
        /\ "versionId" \notin QueryKeysOf(ParInput) => ParValue.version = None

\* /resources/r1 together with ?resourceId=r9
C14_Witness ==
    /\ Accepted
    /\ IsPathOfKind(PathOf(ParInput), "resources")
    /\ "resourceId" \in QueryKeysOf(ParInput)
    /\ LastValueOf(ParInput, "resourceId") = "r9"
    /\ Unwrap(ParValue.query)["resourceId"] = "r1"

\* C15: an accepted input with the path /versions/V and no query string has
\* version V and no query mapping; with a query string the mapping holds
\* exactly the keys of the query string.
C15_VersionsPath ==
    (Accepted /\ IsPathOfKind(PathOf(ParInput), "versions")) =>
        /\ ~HasQueryString(ParInput) =>
              /\ ParValue.version = Some(PathOf(ParInput)[4])
              /\ ParValue.query = None
        /\ HasQueryString(ParInput) =>
              /\ IsSome(ParValue.query)
              /\ DOMAIN Unwrap(ParValue.query) = QueryKeysOf(ParInput)

\* /versions/v1 without a query string
C15_Witness ==
    /\ Accepted
    /\ IsPathOfKind(PathOf(ParInput), "versions")
    /\ ~HasQueryString(ParInput)
    /\ ParValue.version = Some("v1")
    /\ ParValue.query = None

\* C16: an accepted input whose query string has the key versionId with the
\* value V2 has version V2 whatever its path, and versionId stays in the
\* mapping; without that key the version is the V of a /versions/V path, and
\* None when there is no such path.
C16_VersionIdOverrides ==
    Accepted =>
        /\ "versionId" \in QueryKeysOf(ParInput) =>
              /\ ParValue.version = Some(LastValueOf(ParInput, "versionId"))
              /\ "versionId" \in DOMAIN Unwrap(ParValue.query)
              /\ Unwrap(ParValue.query)["versionId"] = LastValueOf(ParInput, "versionId")
        /\ ("versionId" \notin QueryKeysOf(ParInput)
            /\ IsPathOfKind(PathOf(ParInput), "versions")) =>
              ParValue.version = Some(PathOf(ParInput)[4])
        /\ ("versionId" \notin QueryKeysOf(ParInput)
            /\ (PathOf(ParInput) = <<>> \/ IsPathOfKind(PathOf(ParInput), "resources"))) =>
              ParValue.version = None

\* /versions/v1 together with ?versionId=v2
C16_Witness ==
    /\ Accepted
    /\ IsPathOfKind(PathOf(ParInput), "versions")
    /\ PathOf(ParInput)[4] = "v1"
    /\ "versionId" \in QueryKeysOf(ParInput)
    /\ ParValue.version = Some("v2")

\* the path without its leading slashes
RECURSIVE StripSlashes(_)
StripSlashes(path) ==
    IF path # <<>> /\ Head(path) = "/" THEN StripSlashes(Tail(path)) ELSE path

\* the number of '/'-separated segments of a text
SegmentCount(s) == 1 + Cardinality({i \in 1 .. Len(s) : s[i] = "/"})

KnownKinds == {<<"resources">>, <<"versions">>}

HasPath(input) == HasPrefix(input) /\ PathOf(input) # <<>>

WellShapedPath(path) ==
    /\ path # <<>> /\ Head(path) = "/"
    /\ SegmentCount(Tail(path)) = 2
    /\ UpTo(Tail(path), {"/"}) # <<>>
    /\ After(Tail(path), Len(UpTo(Tail(path), {"/"})) + 1) # <<>>

\* C18: an input with a path is accepted only when the path is one leading
\* slash and exactly two non-empty segments; no accepted path gives an empty
\* resourceId or an empty version.
C18_PathShape ==
    (Accepted /\ HasPath(ParInput)) =>
        /\ WellShapedPath(PathOf(ParInput))
        /\ IsSome(ParValue.query) /\ "resourceId" \in DOMAIN Unwrap(ParValue.query) =>
              Unwrap(ParValue.query)["resourceId"] # ""
        /\ "versionId" \notin QueryKeysOf(ParInput) => ParValue.version # Some("")

\* ---- the adapter's claims
IsResourceId(id) == \E i \in 1 .. Len(id) : id[i] \in {"/", "?"}

\* C11: a method-specific id with a '/' or a '?' is routed to resource
\* resolution and never to document resolution; one with neither is routed to
\* document resolution of "did:cheqd:" + id; each adapter call invokes exactly
\* one engine operation, and an engine error is returned as an internal error
\* carrying it, with no second engine call.
C11_AdapterRouting ==
    adp.pc # "idle" =>
        /\ Len(adp.calls) = 1
        /\ IsResourceId(Unwrap(adp.id)) =>
              adp.calls[1] = [op |-> "query_resource_by_str",
                              arg |-> Join(Unwrap(adp.id))]
        /\ ~IsResourceId(Unwrap(adp.id)) =>
              adp.calls[1] = [op |-> "query_did_doc_by_str",
                              arg |-> Join(METHOD_PREFIX \o Unwrap(adp.id))]
        /\ (adp.pc = "done" /\ ~Unwrap(adp.engine).ok) =>
              /\ ~Unwrap(adp.output).ok
              /\ Unwrap(adp.output).err = "internal"
              /\ Unwrap(adp.output).msg =
                     "cheqd resolver error: " \o Unwrap(adp.engine).err
              /\ Unwrap(adp.output).value = None

\* an id with a '?' and no '/', its resource resolution failing in the engine
C11_Witness ==
    /\ adp.pc = "done"
    /\ \E i \in 1 .. Len(Unwrap(adp.id)) : Unwrap(adp.id)[i] = "?"
    /\ \A i \in 1 .. Len(Unwrap(adp.id)) : Unwrap(adp.id)[i] # "/"
    /\ adp.calls = <<[op |-> "query_resource_by_str", arg |-> Join(Unwrap(adp.id))]>>
    /\ Unwrap(adp.engine) = Err("InvalidDidUrl")
    /\ Unwrap(adp.output).err = "internal"

\* ---- the connection cache under concurrent callers
\* C19: at most one connection is established per namespace, whatever the
\* interleaving: a caller that is connecting holds the cache lock until its
\* client is inserted, and every caller with a client holds the cached one.
C19_SingleConnect ==
    /\ \A n \in Namespaces : connects[n] <= 1
    /\ \A t \in Tasks : tasks[t].pc = "connecting" => lock = t
    /\ \A t \in Tasks :
          tasks[t].pc = "await" =>
              /\ NetworkOf(tasks[t]) \in DOMAIN network_clients
              /\ tasks[t].client = Some(network_clients[NetworkOf(tasks[t])])

\* two calls in flight on one namespace: one connected, the other did not
C19_Witness ==
    \E t, u \in Tasks :
        /\ t # u
        /\ IsSome(tasks[t].parsed) /\ IsSome(tasks[u].parsed)
        /\ NetworkOf(tasks[t]) = NetworkOf(tasks[u])
        /\ tasks[t].pc = "await" /\ tasks[u].pc = "await"
        /\ tasks[t].attempts = 1 /\ tasks[u].attempts = 0
        /\ tasks[t].client = tasks[u].client
        /\ connects[NetworkOf(tasks[t])] = 1

GetConnectionErrors == {"NetworkNotSupported", "BadConfiguration", "TransportError"}

\* C20: a step in which client_for_network fails leaves the cache as it was,
\* without an entry for the namespace asked for; and a caller asking for a
\* namespace the cache lacks never gets a client without a connection attempt.
C20_FailureLeavesCache ==
    [][\A t \in Tasks :
          /\ (tasks[t].pc \in {"lock", "connecting"} /\ tasks'[t].pc = "done") =>
                /\ ~Unwrap(tasks'[t].result).ok
                /\ Unwrap(tasks'[t].result).err \in GetConnectionErrors
                /\ network_clients' = network_clients
                /\ NetworkOf(tasks[t]) \notin DOMAIN network_clients'
          /\ (tasks[t].pc = "lock" /\ tasks'[t].pc # "lock"
              /\ NetworkOf(tasks[t]) \notin DOMAIN network_clients) =>
                tasks'[t].pc \in {"connecting", "done"}]_vars

\* a failed connection attempt followed by a successful one for the namespace
C20_Witness ==
    \E t, u \in Tasks :
        /\ t # u
        /\ IsSome(tasks[t].parsed) /\ IsSome(tasks[u].parsed)
        /\ NetworkOf(tasks[t]) = NetworkOf(tasks[u])
        /\ tasks[t].result = Some(Err("TransportError"))
        /\ tasks[t].attempts = 1
        /\ tasks[u].pc = "await"
        /\ tasks[u].attempts = 1
        /\ connects[NetworkOf(tasks[u])] = 1

\* the lock is held only by a caller whose connection attempt is pending
LockReleased ==
    /\ lock \in Tasks => tasks[lock].pc = "connecting"
    /\ \A t \in Tasks : tasks[t].pc \in {"idle", "lock", "await", "done"} => lock # t

InCall(t) == tasks[t].pc \in {"lock", "connecting", "await"}

\* C21: the cache lock is free after every return of client_for_network and
\* is never held while an RPC is outstanding; with every connection attempt
\* and every RPC returning, every call returns a result or an error, and a
\* caller waiting for the lock acquires it.
C21_LockReleasedAndCallsReturn ==
    /\ []LockReleased
    /\ \A t \in Tasks : InCall(t) ~> (tasks[t].pc = "done" /\ IsSome(tasks[t].result))
    /\ \A t \in Tasks : (tasks[t].pc = "lock") ~> (tasks[t].pc # "lock")

\* a caller that waited for the lock while another was connecting has its
\* RPC outstanding on the client the other inserted, the lock free again
C21_Witness ==
    \E t, u \in Tasks :
        /\ t # u
        /\ tasks[t].pc = "await" /\ tasks[t].attempts = 0
        /\ tasks[u].pc = "await" /\ tasks[u].attempts = 1
        /\ tasks[t].client = tasks[u].client
        /\ lock = 0

\* the call of t has ended with InvalidDidUrl
EndedInvalidDidUrl(t) ==
    tasks[t].pc = "done" /\ tasks[t].result = Some(Err("InvalidDidUrl"))

\* a refused resource call has run no part of client_for_network
InvalidDidUrlUnconnected ==
    \A t \in Tasks :
        (tasks[t].op = "resource" /\ (InvalidSelector(t) \/ EndedInvalidDidUrl(t))) =>
            /\ EndedInvalidDidUrl(t)
            /\ tasks[t].fn = ""
            /\ tasks[t].client = None
            /\ tasks[t].attempts = 0
            /\ tasks[t].rpcs = <<>>

\* C22: a resource call that ends with InvalidDidUrl (query absent, name or
\* type missing, resourceVersionTime unparsable) ends in its first step,
\* before client_for_network: it has asked for no client, attempted no
\* connection and sent no RPC, and the step leaves the cache, the connections
\* and the lock as they were, whatever the namespace.
C22_InvalidDidUrlBeforeConnection ==
    /\ []InvalidDidUrlUnconnected
    /\ [][\A t \in Tasks :
            (tasks[t].pc # "done" /\ tasks'[t].pc = "done"
             /\ tasks'[t].result = Some(Err("InvalidDidUrl"))) =>
                /\ tasks[t].pc = "idle"
                /\ network_clients' = network_clients
                /\ connects' = connects
                /\ lock' = lock]_vars

\* a name without a type on a namespace that is not configured, refused while
\* the cache holds a client
C22_Witness ==
    \E t \in Tasks :
        /\ EndedInvalidDidUrl(t)
        /\ HasKey(t, "resourceName") /\ ~HasKey(t, "resourceType")
        /\ NetworkOf(tasks[t]) \notin Configured
        /\ network_clients # <<>>
        /\ tasks[t].rpcs = <<>>

\* ---- entries without a creation timestamp
\* the entries of the listing with the name and type looked up
Matching(listing) == filter_resources_by_name_and_type(listing, "n1", "t1")

\* the listing without its entries that lack a creation timestamp
Timestamped(listing) == SelectSeq(listing, LAMBDA r : IsSome(r.created))

\* an entry without a creation timestamp stands, in the order the scan
\* follows, before the entry r
BehindUntimed(listing, r) ==
    LET sorted == sort_by(Matching(listing))
    IN  \E i, j \in 1 .. Len(sorted) :
            i < j /\ ~IsSome(sorted[i].created) /\ sorted[j] = r

\* C23: the name/type/time lookup never selects an entry without a creation
\* timestamp, whatever the as-of time; when no matching entry has one, nothing
\* is selected; the entry selected is the one selected from the listing
\* without the untimestamped entries, also when it stands behind one of them;
\* and a matching entry created in a second before that of the as-of time is
\* enough for an entry to be found.
C23_UntimestampedNeverSelected ==
    sel.applied =>
        /\ IsSome(sel.out) =>
              /\ IsSome(Unwrap(sel.out).created)
              /\ \E i \in 1 .. Len(sel.listing) : sel.listing[i] = Unwrap(sel.out)
        /\ Timestamped(Matching(sel.listing)) = <<>> => sel.out = None
        /\ sel.out = SelectResource(Timestamped(sel.listing), "n1", "t1", sel.time)
        /\ \A i \in 1 .. Len(sel.listing) :
              (/\ sel.listing[i].name = "n1" /\ sel.listing[i].resource_type = "t1"
               /\ IsSome(sel.listing[i].created)
               /\ normalized(Unwrap(sel.listing[i].created)).seconds < sel.time.seconds)
              => IsSome(sel.out)

\* an entry created at the epoch, found behind an untimestamped one
C23_Witness ==
    /\ sel.applied
    /\ IsSome(sel.out)
    /\ Unwrap(sel.out).created = Some(Ts(0, 0))
    /\ BehindUntimed(sel.listing, Unwrap(sel.out))

====
